---- MODULE Spec2Model ----
(***************************************************************************)
(* The rotating, self-compressing log file writer of pkg/logging/api.go    *)
(* (FileWriter), as a state machine: the log directory, the writer's       *)
(* fields, the callers of Write, one caller of Close and the background    *)
(* compression goroutines.                                                 *)
(*                                                                         *)
(* File names are sequences of string tokens ("logfile.log" is             *)
(* <<"logfile", ".log">>), so that archiveName and the suffixes compress   *)
(* appends are computed the way the code computes them.  A file's bytes    *)
(* are a sequence of runs [b, n]: n bytes written by the b-th call of      *)
(* Write (0: the bytes were in the directory before construction).         *)
(*                                                                         *)
(* A system call can fail.  Every behaviour has at most one faulty call    *)
(* site, named by the source line of the call; each time control passes    *)
(* the faulty site the call either succeeds or fails.                      *)
(***************************************************************************)
EXTENDS Integers, Sequences, FiniteSets, TLC

VARIABLES
    phase,        \* "new" before NewFileWriter, then "ready", or "fatal" (lg.Fatalw)
    config,       \* FileWriterConfig: Compress, MaxTimeTimeToKeep, MaxLogFileSizeBytes
    workload,     \* the calls of Write to come: how many at most, payload lengths
    dir0,         \* the directory listing NewFileWriter finds (os.ReadDir order)
    faulty,       \* the call site that may fail in this behaviour (0: none)
    fs,           \* the directory: file name -> [data, gz]
    closed,       \* w.closed: Nil until Close stores true
    mu,           \* w.mu: "free" or the caller holding it
    logFile,      \* w.logFile: 0 is nil, h > 0 the h-th *os.File opened
    opened,       \* number of *os.File values the writer has opened
    openSet,      \* the writer's *os.File values that are open
    byteCounter,  \* w.byteCounter
    wg,           \* w.compressorWG's counter
    tasks,        \* the compress goroutines started, in order: [fn, pc, failed]
    lastTs,       \* the latest timestamp time.Now() gave archiveName
    pc,           \* each caller's place in Write
    cur,          \* each caller's Write in progress
    nextId,       \* number of Write calls started
    closePc,      \* the place of the caller of Close
    closeCalls,   \* number of Close calls started
    hist,         \* what has been observed so far: returns, counts, the sweep
    level,        \* atomicLogLevel
    now,          \* the clock, in minutes
    timers,       \* the calls of SetLevelTemporarily that started a goroutine
    ret           \* what the last SetLevelTemporarily returned

vars == <<phase, config, workload, dir0, faulty, fs, closed, mu, logFile, opened, openSet,
          byteCounter, wg, tasks, lastTs, pc, cur, nextId, closePc, closeCalls,
          hist, level, now, timers, ret>>

\* the FileWriter and its directory
fw == <<phase, config, workload, dir0, faulty, fs, closed, mu, logFile, opened, openSet,
        byteCounter, wg, tasks, lastTs, pc, cur, nextId, closePc, closeCalls, hist>>

\* the log level and its timers
lvl == <<level, now, timers, ret>>

\* what a behaviour is given at its start and never changes
env == <<config, workload, dir0, faulty>>

-----------------------------------------------------------------------------
(* Bounds of the model *)

\* Write is called at most this many times
MaxWrites == 2

\* the largest FileWriterConfig.MaxLogFileSizeBytes a writer is given
MaxSize == 2

\* Close is called at most this many times
MaxCloses == 2

Callers == {"c1", "c2"}

\* payload lengths: a short line, and one that alone exceeds the maximum
PayloadLens == {1, MaxSize + 1}

Nil == "nil"

ErrClosed == "os.ErrClosed"

ErrInvalid == "os.ErrInvalid"

ErrIO == "io error"

-----------------------------------------------------------------------------
(* Call sites that can fail, by source line of pkg/logging/api.go *)

SiteWrite == 159

SiteInitMkdir == 177

SiteInitOpen == 206

SiteReadDir == 217

SiteSweepRemove == 232

SiteRotateClose == 255

SiteRotateMkdir == 264

SiteRotateOpen == 272

SiteArchiveRename == 285

SiteCompressOpenIn == 303

SiteCompressOpenOut == 313

SiteCompressCopy == 323

SiteCompressRename == 330

SiteCompressRemove == 335

WriteSites == {SiteWrite, SiteRotateClose, SiteRotateMkdir, SiteRotateOpen,
               SiteArchiveRename}

CompressSites == {SiteCompressOpenIn, SiteCompressOpenOut, SiteCompressCopy,
                  SiteCompressRename, SiteCompressRemove}

NewSites == {SiteInitMkdir, SiteInitOpen, SiteReadDir, SiteSweepRemove,
             SiteArchiveRename}

\* the site that fails in one step: none, or the faulty one
FaultChoices == {0, faulty}

-----------------------------------------------------------------------------
(* File names *)

\* config.LogFileName
LogFileName == <<"logfile", ".log">>

compressedExtension == ".gz"

processingExtenstion == ".processing"

\* time.Now().Format(archiveNameFormat): the text of the t-th instant
archiveNameFormat(t) == <<"T0", "T1", "T2", "T3", "T4", "T5", "T6", "T7">>[t + 1]

\* filepath.Ext: the last token when it starts with a dot
Ext(name) ==
    IF Len(name) > 1 /\ name[Len(name)] \in {".log", ".gz", ".processing", ".txt"}
    THEN <<name[Len(name)]>>
    ELSE <<>>

\* the timestamp put after the extension
archiveNameAfterExt(current, t) == current \o <<"-", archiveNameFormat(t)>>

archiveName(current, t) ==
    LET ext == Ext(current)
        prefix == SubSeq(current, 1, Len(current) - Len(ext))
    IN  prefix \o <<"-", archiveNameFormat(t)>> \o ext

compressedFilename(fn) == fn \o <<compressedExtension>>

tempFilename(fn) == compressedFilename(fn) \o <<processingExtenstion>>

\* strings.HasSuffix(info.Name(), "log")
HasSuffixLog(name) == name[Len(name)] \in {".log", "catalog"}

File(data, gz) == [data |-> data, gz |-> gz]

\* the directory with name (re)bound to file f
Put(d, name, f) == [x \in DOMAIN d \cup {name} |-> IF x = name THEN f ELSE d[x]]

\* os.Remove
Unlink(d, name) == [x \in DOMAIN d \ {name} |-> d[x]]

\* os.Rename: replaces newName when it exists
Rename(d, oldName, newName) == Unlink(Put(d, newName, d[oldName]), oldName)

Exists(d, name) == name \in DOMAIN d

\* a file's contents are the runs of bytes appended to it: Bytes(b, n) is
\* the n bytes one call b handed to a single logFile.Write (b = 0: bytes the
\* directory held before the writer was constructed)
Bytes(b, n) == IF n = 0 THEN <<>> ELSE <<[b |-> b, n |-> n]>>

RECURSIVE Size(_)
\* FileInfo.Size(): the number of bytes in the file
Size(data) == IF data = <<>> THEN 0 ELSE data[1].n + Size(Tail(data))

-----------------------------------------------------------------------------
(* What NewFileWriter is given *)

Entry(name, age, data) == [name |-> name, age |-> age, data |-> data]

OldArchive == <<"logfile", "-", "T0", ".log">>

\* MaxTimeTimeToKeep values: keep forever, or two time units
Retentions == {0, 2}

\* ages of the files found, around the retention time
Ages == {2, 3}

Configs ==
    [Compress : BOOLEAN, MaxTimeTimeToKeep : Retentions, MaxLogFileSizeBytes : {MaxSize}]

\* the runs that go on to Write and Close keep every file found
RunConfigs ==
    [Compress : BOOLEAN, MaxTimeTimeToKeep : {0}, MaxLogFileSizeBytes : {MaxSize}]

\* the calls of Write a run makes: how many, and of which payload lengths
RunWorkloads == {[writes |-> MaxWrites, lens |-> PayloadLens]}

\* TestFileWriter's MaxLogFileSizeBytes
TestMaxLogFileSizeBytes == 1000

\* TestFileWriter's randomString(50)
TestPayloadLen == 50

\* TestFileWriter's loop
TestWrites == 120

TestConfigs ==
    {[Compress |-> TRUE, MaxTimeTimeToKeep |-> 1,
      MaxLogFileSizeBytes |-> TestMaxLogFileSizeBytes]}

TestWorkloads == {[writes |-> TestWrites, lens |-> {TestPayloadLen}]}

\* listings for the runs that go on to Write and Close
RunDirs ==
    { <<>>,
      <<Entry(LogFileName, 2, Bytes(0, 1))>>,
      <<Entry(OldArchive, 2, Bytes(0, 1))>> }

\* the sizes of an active file found: below, at and above the maximum
FoundSizes == {MaxSize - 1, MaxSize, MaxSize + 1}

\* listings for the runs that stop after construction, in os.ReadDir's order
NewDirs ==
    { <<Entry(<<"catalog">>, a1, Bytes(0, 1)), Entry(OldArchive, a2, Bytes(0, 2)),
        Entry(LogFileName, a3, Bytes(0, n))>> :
          a1 \in Ages, a2 \in Ages, a3 \in Ages, n \in FoundSizes }
    \cup
    { <<Entry(OldArchive, a2, Bytes(0, 1)), Entry(compressedFilename(OldArchive), a1, Bytes(0, 1)),
        Entry(<<"notes", ".txt">>, a3, Bytes(0, 1))>> :
          a1 \in Ages, a2 \in Ages, a3 \in Ages }

\* the directory a listing describes
DirOf(listing) ==
    [name \in {listing[i].name : i \in DOMAIN listing} |->
        LET i == CHOOSE j \in DOMAIN listing : listing[j].name = name
        IN  File(listing[i].data, name[Len(name)] = compressedExtension)]

-----------------------------------------------------------------------------
(* The compressor's goroutines *)

Task(fn) == [fn |-> fn, pc |-> "ready", failed |-> 0]

\* w.compressorWG.Add(1); go w.compress(fn)
Spawn(st, fn) == [st EXCEPT !.wg = @ + 1, !.tasks = Append(@, Task(fn))]

\* gzip of a file's content
Gzip(f) == File(f.data, TRUE)

\* lines 303-328 of compress: open both files and stream; f is the failing site
CompressOpenCopy(d, fn, f) ==
    IF f = SiteCompressOpenIn \/ ~Exists(d, fn)
    THEN [fs |-> d, failed |-> SiteCompressOpenIn]
    ELSE IF f = SiteCompressOpenOut
    THEN [fs |-> d, failed |-> SiteCompressOpenOut]
    ELSE IF f = SiteCompressCopy
    THEN [fs |-> Unlink(Put(d, tempFilename(fn), File(<<>>, TRUE)), tempFilename(fn)),
          failed |-> SiteCompressCopy]
    ELSE [fs |-> Put(d, tempFilename(fn), Gzip(d[fn])), failed |-> 0]

\* lines 330-338 of compress: rename the output, remove the input
CompressRenameRemove(d, fn, f) ==
    LET renameFails == f = SiteCompressRename \/ ~Exists(d, tempFilename(fn))
        d1 == IF renameFails THEN d
              ELSE Rename(d, tempFilename(fn), compressedFilename(fn))
        removeFails == f = SiteCompressRemove \/ ~Exists(d1, fn)
        d2 == IF removeFails THEN d1 ELSE Unlink(d1, fn)
    IN  [fs |-> d2,
         failed |-> IF renameFails THEN SiteCompressRename
                    ELSE IF removeFails THEN SiteCompressRemove ELSE 0]

\* a compress that returns early on a failure without compressorWG.Done()
CompressStartNoDone(i) ==
    /\ phase = "ready"
    /\ i \in DOMAIN tasks
    /\ tasks[i].pc = "ready"
    /\ \E f \in FaultChoices :
         LET r == CompressOpenCopy(fs, tasks[i].fn, f)
         IN  /\ fs' = r.fs
             /\ tasks' = [tasks EXCEPT ![i].pc = IF r.failed = 0 THEN "copied" ELSE "done",
                                       ![i].failed = r.failed]
    /\ UNCHANGED <<lvl, phase, env, closed, mu, logFile, opened, openSet,
                   byteCounter, wg, lastTs, pc, cur, nextId, closePc, closeCalls, hist>>

\* compress up to the end of io.Copy; a failure ends the goroutine (Done)
CompressStart(i) ==
    /\ phase = "ready"
    /\ i \in DOMAIN tasks
    /\ tasks[i].pc = "ready"
    /\ \E f \in FaultChoices :
         LET r == CompressOpenCopy(fs, tasks[i].fn, f)
         IN  /\ fs' = r.fs
             /\ tasks' = [tasks EXCEPT ![i].pc = IF r.failed = 0 THEN "copied" ELSE "done",
                                       ![i].failed = r.failed]
             /\ wg' = IF r.failed = 0 THEN wg ELSE wg - 1
    /\ UNCHANGED <<lvl, phase, env, closed, mu, logFile, opened, openSet,
                   byteCounter, lastTs, pc, cur, nextId, closePc, closeCalls, hist>>

\* the rest of compress, and the deferred compressorWG.Done()
CompressFinish(i) ==
    /\ phase = "ready"
    /\ i \in DOMAIN tasks
    /\ tasks[i].pc = "copied"
    /\ \E f \in FaultChoices :
         LET r == CompressRenameRemove(fs, tasks[i].fn, f)
         IN  /\ fs' = r.fs
             /\ tasks' = [tasks EXCEPT ![i].pc = "done", ![i].failed = r.failed]
    /\ wg' = wg - 1
    /\ UNCHANGED <<lvl, phase, env, closed, mu, logFile, opened, openSet,
                   byteCounter, lastTs, pc, cur, nextId, closePc, closeCalls, hist>>

-----------------------------------------------------------------------------
(* Construction *)

\* archive: rename the active file, maybe start a compressor.
\* st is [fs, wg, tasks]; the result adds err
archive(st, t, f) ==
    LET newName == archiveName(LogFileName, t)
    IN  IF f = SiteArchiveRename \/ ~Exists(st.fs, LogFileName)
        THEN [fs |-> st.fs, wg |-> st.wg, tasks |-> st.tasks, err |-> ErrIO]
        ELSE LET renamed == [st EXCEPT !.fs = Rename(st.fs, LogFileName, newName)]
                 after == IF config.Compress THEN Spawn(renamed, newName) ELSE renamed
             IN  [fs |-> after.fs, wg |-> after.wg, tasks |-> after.tasks, err |-> Nil]

\* deletion from the retention time on
TooOldOrEqual(e) ==
    config.MaxTimeTimeToKeep > 0 /\ e.age >= config.MaxTimeTimeToKeep

\* whether cleanup selects the entry for deletion by age
TooOld(e) ==
    config.MaxTimeTimeToKeep > 0 /\ e.age > config.MaxTimeTimeToKeep

\* whether cleanup starts a compressor for the entry
IsBacklog(e) == HasSuffixLog(e.name) /\ e.name # LogFileName

\* one turn of cleanup's loop
cleanupEntry(st, e, removeFails) ==
    IF TooOld(e)
    THEN IF removeFails THEN [st EXCEPT !.removeFailed = @ \cup {e.name}]
         ELSE [st EXCEPT !.fs = Unlink(@, e.name), !.removed = @ \cup {e.name}]
    ELSE IF IsBacklog(e) THEN Spawn(st, e.name)
    ELSE st

RECURSIVE cleanupFrom(_, _, _)
\* cleanup's loop from the i-th entry on; bad: the entries whose removal fails
cleanupFrom(i, st, bad) ==
    IF i > Len(dir0) THEN st
    ELSE cleanupFrom(i + 1, cleanupEntry(st, dir0[i], i \in bad), bad)

cleanup(st, bad) == cleanupFrom(1, st, bad)

\* initialize, after MkdirAll and ReadDir succeeded
initialize(f, bad) ==
    LET swept == cleanup([fs |-> DirOf(dir0), wg |-> 0, tasks |-> <<>>,
                          removed |-> {}, removeFailed |-> {}], bad)
        found == Exists(swept.fs, LogFileName)
        size == IF found THEN Size(swept.fs[LogFileName].data) ELSE 0
        oversized == found /\ size >= config.MaxLogFileSizeBytes
        arch == IF oversized THEN archive(swept, 1, f)
                ELSE [fs |-> swept.fs, wg |-> swept.wg, tasks |-> swept.tasks, err |-> Nil]
        ok == arch.err = Nil /\ f # SiteInitOpen
    IN  [ok |-> ok,
         fs |-> IF ok /\ ~Exists(arch.fs, LogFileName)
                THEN Put(arch.fs, LogFileName, File(<<>>, FALSE)) ELSE arch.fs,
         wg |-> arch.wg,
         tasks |-> arch.tasks,
         byteCounter |-> IF found /\ ~oversized THEN size ELSE 0,
         lastTs |-> IF oversized /\ arch.err = Nil THEN 1 ELSE 0,
         logFile |-> IF ok THEN 1 ELSE 0,
         removed |-> swept.removed,
         removeFailed |-> swept.removeFailed]

NewFileWriter ==
    /\ phase = "new"
    /\ \E f \in FaultChoices, bad \in SUBSET (DOMAIN dir0) :
         /\ (f # SiteSweepRemove) => (bad = {})
         /\ IF f \in {SiteInitMkdir, SiteReadDir}
            THEN /\ phase' = "fatal"
                 /\ UNCHANGED <<fs, wg, tasks, byteCounter, lastTs, logFile, opened,
                                openSet, hist>>
            ELSE LET r == initialize(f, bad)
                 IN  /\ phase' = IF r.ok THEN "ready" ELSE "fatal"
                     /\ fs' = r.fs
                     /\ wg' = r.wg
                     /\ tasks' = r.tasks
                     /\ byteCounter' = r.byteCounter
                     /\ lastTs' = r.lastTs
                     /\ logFile' = r.logFile
                     /\ opened' = r.logFile
                     /\ openSet' = IF r.ok THEN {1} ELSE {}
                     /\ hist' = [hist EXCEPT !.swept = TRUE,
                                             !.removed = r.removed,
                                             !.removeFailed = r.removeFailed,
                                             !.size0 =
                                                 IF r.ok THEN Size(r.fs[LogFileName].data)
                                                 ELSE 0]
    /\ UNCHANGED <<lvl, env, closed, mu, pc, cur, nextId, closePc, closeCalls>>

-----------------------------------------------------------------------------
(* Write *)

\* a writer that counts as closed only once Close has returned
ClosedOnceReturned == closed # Nil /\ closePc = "idle"

\* w.closed.Load() != nil
IsClosed == closed # Nil

\* a lock that never blocks
CanLockAlways == TRUE

\* w.mu.Lock() can return
CanLock == mu = "free"

\* a rotation as soon as the maximum is reached
AtOrOverMax(counter) == counter >= config.MaxLogFileSizeBytes

\* the order to rotate: w.byteCounter > w.config.MaxLogFileSizeBytes
OverMax(counter) == counter > config.MaxLogFileSizeBytes

\* no Write in progress
NoCall == [id |-> 0, len |-> 0, n |-> 0, err |-> Nil, rotated |-> FALSE,
           archErr |-> Nil, rotErr |-> Nil, late |-> FALSE]

\* what a Write that returns leaves in hist
Returned(h, call) ==
    [h EXCEPT !.last = [n |-> call.n, err |-> call.err, rotated |-> call.rotated,
                        archErr |-> call.archErr, rotErr |-> call.rotErr,
                        late |-> call.late],
              !.sum = @ + call.len,
              !.errs = @ + (IF call.err = Nil THEN 0 ELSE 1)]

\* lines 152-157: take the lock, refuse when closed
WriteLock(c) ==
    /\ phase = "ready"
    /\ pc[c] = "idle"
    /\ nextId < workload.writes
    /\ CanLock
    /\ nextId' = nextId + 1
    /\ \E len \in workload.lens :
         LET call == [NoCall EXCEPT !.id = nextId + 1, !.len = len,
                                    !.late = closeCalls > 0]
         IN  IF IsClosed
             THEN /\ hist' = Returned(hist, [call EXCEPT !.err = ErrClosed])
                  /\ UNCHANGED <<mu, pc, cur>>
             ELSE /\ mu' = c
                  /\ pc' = [pc EXCEPT ![c] = "locked"]
                  /\ cur' = [cur EXCEPT ![c] = call]
                  /\ UNCHANGED hist
    /\ UNCHANGED <<lvl, phase, env, fs, closed, logFile, opened, openSet,
                   byteCounter, wg, tasks, lastTs, closePc, closeCalls>>

\* n bytes of call id appended to the active file
Appended(d, id, n) ==
    IF n = 0 THEN d ELSE [d EXCEPT ![LogFileName].data = @ \o Bytes(id, n)]

\* lines 159-164: w.logFile.Write(msg), then the counter
WriteAppend(c) ==
    /\ phase = "ready"
    /\ pc[c] = "locked"
    /\ \E f \in FaultChoices :
         \E n \in IF f = SiteWrite THEN 0..(cur[c].len - 1) ELSE {cur[c].len} :
           LET err == IF logFile = 0 THEN ErrInvalid
                      ELSE IF logFile \notin openSet THEN ErrClosed
                      ELSE IF f = SiteWrite THEN ErrIO
                      ELSE Nil
               got == IF err \in {ErrInvalid, ErrClosed} THEN 0 ELSE n
           IN  /\ fs' = Appended(fs, cur[c].id, got)
               /\ byteCounter' = byteCounter + got
               /\ cur' = [cur EXCEPT ![c].n = got, ![c].err = err]
    /\ pc' = [pc EXCEPT ![c] = "written"]
    /\ UNCHANGED <<lvl, phase, env, closed, mu, logFile, opened, openSet,
                   wg, tasks, lastTs, nextId, closePc, closeCalls, hist>>

\* the deferred w.mu.Unlock() and the return of (n, err)
WriteReturn(c, h, call) ==
    /\ mu' = "free"
    /\ pc' = [pc EXCEPT ![c] = "idle"]
    /\ hist' = Returned(h, call)
    /\ cur' = [cur EXCEPT ![c] = NoCall]

\* the instants time.Now() can give the next archiveName
Instants == IF lastTs = 0 THEN {1} ELSE {lastTs, lastTs + 1}

\* lines 166-170 without a rotation: return
WriteDone(c) ==
    /\ phase = "ready"
    /\ pc[c] = "written"
    /\ ~OverMax(byteCounter)
    /\ WriteReturn(c, hist, cur[c])
    /\ UNCHANGED <<lvl, phase, env, fs, closed, logFile, opened, openSet,
                   byteCounter, wg, tasks, lastTs, nextId, closePc, closeCalls>>

\* rotate with w.logFile nil: panic("logging inconsistency: logFile was nil")
RotatePanic(c) ==
    /\ phase = "ready"
    /\ pc[c] = "written"
    /\ OverMax(byteCounter)
    /\ logFile = 0
    /\ phase' = "panic"
    /\ hist' = [hist EXCEPT !.rotations = @ + 1]
    /\ UNCHANGED <<lvl, env, fs, closed, mu, logFile, opened, openSet,
                   byteCounter, wg, tasks, lastTs, pc, cur, nextId, closePc,
                   closeCalls>>

\* lines 254-269 of rotate: close the handle, MkdirAll, archive (its error dropped)
RotateArchive(c) ==
    /\ phase = "ready"
    /\ pc[c] = "written"
    /\ OverMax(byteCounter)
    /\ logFile # 0
    /\ \E f \in FaultChoices, t \in Instants :
         LET closeErr == logFile \notin openSet \/ f = SiteRotateClose
             arch == archive([fs |-> fs, wg |-> wg, tasks |-> tasks], t, f)
             called == [hist EXCEPT !.rotations = @ + 1]
         IN  /\ openSet' = openSet \ {logFile}
             /\ IF closeErr \/ f = SiteRotateMkdir
                THEN /\ WriteReturn(c, called,
                                    [cur[c] EXCEPT !.rotated = TRUE, !.rotErr = ErrIO])
                     /\ UNCHANGED <<fs, wg, tasks, lastTs>>
                ELSE /\ fs' = arch.fs
                     /\ wg' = arch.wg
                     /\ tasks' = arch.tasks
                     /\ lastTs' = t
                     /\ pc' = [pc EXCEPT ![c] = "archived"]
                     /\ cur' = [cur EXCEPT ![c].rotated = TRUE, ![c].archErr = arch.err]
                     /\ hist' = [called EXCEPT
                                   !.archived = @ + (IF arch.err = Nil THEN 1 ELSE 0)]
                     /\ UNCHANGED mu
    /\ UNCHANGED <<lvl, phase, env, closed, logFile, opened, byteCounter,
                   nextId, closePc, closeCalls>>

\* lines 272-279 of rotate: reopen the active file, reset the counter; then return
RotateReopen(c) ==
    /\ phase = "ready"
    /\ pc[c] = "archived"
    /\ \E f \in FaultChoices :
         IF f = SiteRotateOpen
         THEN /\ logFile' = 0
              /\ WriteReturn(c, hist, [cur[c] EXCEPT !.rotErr = ErrIO])
              /\ UNCHANGED <<fs, opened, openSet, byteCounter>>
         ELSE /\ logFile' = opened + 1
              /\ opened' = opened + 1
              /\ openSet' = openSet \cup {opened + 1}
              /\ fs' = IF Exists(fs, LogFileName) THEN fs
                       ELSE Put(fs, LogFileName, File(<<>>, FALSE))
              /\ byteCounter' = 0
              /\ WriteReturn(c, hist, cur[c])
    /\ UNCHANGED <<lvl, phase, env, closed, wg, tasks, lastTs, nextId,
                   closePc, closeCalls>>

-----------------------------------------------------------------------------
(* Close *)

\* line 146: w.closed.Store(true)
CloseStore ==
    /\ phase = "ready"
    /\ closePc = "idle"
    /\ closeCalls < MaxCloses
    /\ closed' = "true"
    /\ closePc' = "stored"
    /\ closeCalls' = closeCalls + 1
    /\ UNCHANGED <<lvl, phase, env, fs, mu, logFile, opened, openSet,
                   byteCounter, wg, tasks, lastTs, pc, cur, nextId, hist>>

\* w.compressorWG.Wait() can return
Drained == wg = 0

\* line 147: w.compressorWG.Wait()
CloseWait ==
    /\ phase = "ready"
    /\ closePc = "stored"
    /\ Drained
    /\ closePc' = "waited"
    /\ UNCHANGED <<lvl, phase, env, fs, closed, mu, logFile, opened,
                   openSet, byteCounter, wg, tasks, lastTs, pc, cur, nextId,
                   closeCalls, hist>>

\* line 148: return w.logFile.Close()
CloseFile ==
    /\ phase = "ready"
    /\ closePc = "waited"
    /\ closePc' = "idle"
    /\ openSet' = openSet \ {logFile}
    /\ hist' = [hist EXCEPT !.closeErr = IF logFile = 0 THEN ErrInvalid
                                      ELSE IF logFile \notin openSet THEN ErrClosed
                                      ELSE Nil]
    /\ UNCHANGED <<lvl, phase, env, fs, closed, mu, logFile, opened,
                   byteCounter, wg, tasks, lastTs, pc, cur, nextId, closeCalls>>

-----------------------------------------------------------------------------
(* SetLevelTemporarily *)

\* SetLevelTemporarily is called at most this many times with a level to reset
MaxLevelCalls == 2

\* SetLevelTemporarily is called in the first minutes only
MaxCallTime == 4

\* zapcore.InfoLevel
defaultLogLevel == "info"

Levels == {"debug", "info"}

\* 60 * time.Minute
maxDurationForTemporaryLogLevelChange == 60

\* the clock stops once every timer has delivered
MaxNow == MaxCallTime + maxDurationForTemporaryLogLevelChange + 1

\* 5 * time.Minute
defaultTemporaryLogLevelChangeDuration == 5

\* the durations callers ask for, in minutes: none, short, too long
Durations == {0, 3, 61}

\* the returned 1<<63 - 1
Forever == [forever |-> TRUE, d |-> 0]

\* lines 44-50: the duration after the default and the cap
Capped(d) ==
    LET d1 == IF d = 0 THEN defaultTemporaryLogLevelChangeDuration ELSE d
    IN  IF d1 > maxDurationForTemporaryLogLevelChange
        THEN maxDurationForTemporaryLogLevelChange ELSE d1

\* every returned call that has seen the level lv is marked
Observed(ts, lv) ==
    [i \in DOMAIN ts |->
        IF ts[i].pc = "returned" /\ lv = defaultLogLevel
        THEN [ts[i] EXCEPT !.back = TRUE] ELSE ts[i]]

\* lines 36-62: the special case, or the goroutine is started
SetLevelTemporarilyCall ==
    \E lv \in Levels, d \in Durations :
        /\ now <= MaxCallTime
        /\ IF lv = defaultLogLevel
           THEN /\ level' = defaultLogLevel
                /\ ret' = Forever
                /\ timers' = Observed(timers, defaultLogLevel)
                /\ UNCHANGED <<fw, now>>
           ELSE /\ Len(timers) < MaxLevelCalls
                /\ timers' = Append(timers, [level |-> lv, d |-> Capped(d), at |-> now,
                                             pc |-> "started", fired |-> FALSE,
                                             back |-> FALSE])
                /\ UNCHANGED <<fw, level, now, ret>>

\* lines 64-65: atomicLogLevel.SetLevel(level); return d, nil
SetLevelTemporarilyReturn(i) ==
    /\ timers[i].pc = "started"
    /\ level' = timers[i].level
    /\ ret' = [forever |-> FALSE, d |-> timers[i].d]
    /\ timers' = [timers EXCEPT ![i].pc = "returned"]
    /\ UNCHANGED <<fw, now>>

\* <-time.After(d) has delivered
Due(t) == now >= t.at + t.d

\* lines 53-62: the goroutine resets the level unless it is the default
ResetLevel(i) ==
    /\ ~timers[i].fired
    /\ Due(timers[i])
    /\ level' = defaultLogLevel
    /\ timers' = Observed([timers EXCEPT ![i].fired = TRUE], defaultLogLevel)
    /\ UNCHANGED <<fw, now, ret>>

\* a minute passes: no call is between its lines, no timer is due
Tick ==
    /\ now < MaxNow
    /\ \A i \in DOMAIN timers :
          /\ timers[i].pc = "returned"
          /\ timers[i].fired \/ ~Due(timers[i])
    /\ now' = now + 1
    /\ UNCHANGED <<fw, level, timers, ret>>

LevelInit ==
    /\ level = defaultLogLevel
    /\ now = 0
    /\ timers = <<>>
    /\ ret = Forever

-----------------------------------------------------------------------------
(* Specifications *)

InitWith(configs, workloads, dirs, sites) ==
    /\ LevelInit
    /\ phase = "new"
    /\ config \in configs
    /\ workload \in workloads
    /\ dir0 \in dirs
    /\ faulty \in {0} \cup sites
    /\ fs = DirOf(dir0)
    /\ closed = Nil
    /\ mu = "free"
    /\ logFile = 0
    /\ opened = 0
    /\ openSet = {}
    /\ byteCounter = 0
    /\ wg = 0
    /\ tasks = <<>>
    /\ lastTs = 0
    /\ pc = [c \in Callers |-> "idle"]
    /\ cur = [c \in Callers |-> NoCall]
    /\ nextId = 0
    /\ closePc = "idle"
    /\ closeCalls = 0
    /\ hist = [last |-> [n |-> 0, err |-> Nil, rotated |-> FALSE, archErr |-> Nil,
                         rotErr |-> Nil, late |-> FALSE],
               sum |-> 0, errs |-> 0, rotations |-> 0, archived |-> 0,
               closeErr |-> Nil, swept |-> FALSE, removed |-> {}, removeFailed |-> {},
               size0 |-> 0]

Init == InitWith(RunConfigs, RunWorkloads, RunDirs, WriteSites \cup CompressSites)

Compress == \E i \in DOMAIN tasks : CompressStart(i) \/ CompressFinish(i)

Write ==
    \E c \in Callers :
        \/ WriteLock(c)
        \/ WriteAppend(c)
        \/ WriteDone(c)
        \/ RotatePanic(c)
        \/ RotateArchive(c)
        \/ RotateReopen(c)

\* the steps of Write that a run without a failing call takes
WriteBy(c) ==
    \/ WriteLock(c)
    \/ WriteAppend(c)
    \/ WriteDone(c)
    \/ RotateArchive(c)
    \/ RotateReopen(c)

Close == CloseStore \/ CloseWait \/ CloseFile

Next == NewFileWriter \/ Write \/ Close \/ Compress

Spec == Init /\ [][Next]_vars

\* construction alone, over more directories, with its compressors
InitNew == InitWith(Configs, RunWorkloads, NewDirs, NewSites)

NextNew == NewFileWriter \/ Compress

SpecNew == InitNew /\ [][NextNew]_vars

\* TestFileWriter: an empty directory, one goroutine calling Write in a loop
InitTest == InitWith(TestConfigs, TestWorkloads, {<<>>}, {})

NextTest == NewFileWriter \/ WriteBy("c1") \/ Compress

SpecTest == InitTest /\ [][NextTest]_vars

\* Write and Close with every system call succeeding
InitNoFault == InitWith(RunConfigs, RunWorkloads, RunDirs, {})

NextNoFault == NewFileWriter \/ (\E c \in Callers : WriteBy(c)) \/ Close \/ Compress

SpecNoFault == InitNoFault /\ [][NextNoFault]_vars

\* a Write that has taken the lock goes on to its return
WriteGoesOn ==
    \E c \in Callers :
        \/ WriteAppend(c)
        \/ WriteDone(c)
        \/ RotateArchive(c)
        \/ RotateReopen(c)

\* Close goes on once called
CloseGoesOn == CloseWait \/ CloseFile

\* the goroutines are scheduled: a compress goroutine, a Write holding the
\* lock and a Close that can take a step eventually take it
Fairness ==
    /\ WF_vars(Compress)
    /\ WF_vars(WriteGoesOn)
    /\ WF_vars(CloseGoesOn)

\* Write, Close and the compress goroutines, whose calls can fail, with
\* compression enabled
InitFair ==
    InitWith({c \in RunConfigs : c.Compress}, RunWorkloads, RunDirs, CompressSites)

\* one goroutine calls Write, another Close, beside the compress goroutines
NextFair == NewFileWriter \/ WriteBy("c1") \/ Close \/ Compress

SpecFair == InitFair /\ [][NextFair]_vars /\ Fairness

\* the log level alone, the writer not yet constructed
InitLevel == InitWith({CHOOSE c \in RunConfigs : TRUE}, RunWorkloads, {<<>>}, {})

NextLevel ==
    \/ SetLevelTemporarilyCall
    \/ \E i \in DOMAIN timers : SetLevelTemporarilyReturn(i)
    \/ \E i \in DOMAIN timers : ResetLevel(i)
    \/ Tick

SpecLevel == InitLevel /\ [][NextLevel]_vars

-----------------------------------------------------------------------------
(* The claims *)

\* no call of Write is in progress
Quiet == \A c \in Callers : pc[c] = "idle"

\* Close has been called and has returned
CloseReturned == closeCalls > 0 /\ closePc = "idle"

\* C1: once Close has been invoked, a Write that starts returns
\* (0, os.ErrClosed) at once and leaves every file as it was.
C1_WriteAfterCloseRejected ==
    [][(closeCalls > 0 /\ nextId' # nextId) =>
          /\ hist'.last.n = 0
          /\ hist'.last.err = ErrClosed
          /\ fs' = fs
          /\ byteCounter' = byteCounter
          /\ pc' = pc]_vars

\* a Write that started after Close was refused, after a rotation
C1_Witness ==
    /\ hist.last.late
    /\ hist.last.err = ErrClosed
    /\ hist.last.n = 0
    /\ hist.rotations > 0

\* C2: while every Write has succeeded and the size found at construction
\* plus the payloads written does not exceed the maximum, there has been no
\* rotation and no archive, and the active file has exactly that size.
C2_NoRotationBelowMax ==
    (/\ phase = "ready"
     /\ Quiet
     /\ hist.errs = 0
     /\ hist.size0 + hist.sum <= config.MaxLogFileSizeBytes)
    => /\ hist.rotations = 0
       /\ hist.archived = 0
       /\ Exists(fs, LogFileName)
       /\ Size(fs[LogFileName].data) = hist.size0 + hist.sum

\* an active file found with a byte in it, filled up to the maximum by Writes
C2_Witness ==
    /\ phase = "ready"
    /\ Quiet
    /\ hist.errs = 0
    /\ hist.size0 > 0
    /\ hist.sum > 0
    /\ hist.size0 + hist.sum = config.MaxLogFileSizeBytes
    /\ Size(fs[LogFileName].data) = config.MaxLogFileSizeBytes

\* C4: a Write whose rotation failed (close, MkdirAll, rename or reopen)
\* returns a non-nil error.
C4_RotationFailureReported ==
    (hist.last.rotErr # Nil \/ hist.last.archErr # Nil) => hist.last.err # Nil

\* C5: once Close has returned, no compress goroutine is in flight.
C5_NoCompressionOutlivesClose ==
    CloseReturned => \A i \in DOMAIN tasks : tasks[i].pc = "done"

\* C6: with compression enabled, an archive whose compress goroutine has
\* finished is either compressed with the original removed, or still there
\* uncompressed with no compressed copy.
C6_CompressedXorOriginal ==
    config.Compress =>
        \A i \in DOMAIN tasks :
            tasks[i].pc = "done" =>
                (Exists(fs, compressedFilename(tasks[i].fn)) /\ ~Exists(fs, tasks[i].fn))
                \/ (Exists(fs, tasks[i].fn) /\ ~Exists(fs, compressedFilename(tasks[i].fn)))

\* C7: a compress goroutine that ends after a failed step (open input, open
\* output, stream, rename) leaves no ".processing" file and leaves the
\* original archive file as it was.
C7_FailedCompressLeavesOriginal ==
    [][\A i \in DOMAIN tasks :
          (/\ tasks[i].pc # "done"
           /\ tasks'[i].pc = "done"
           /\ tasks'[i].failed \in {SiteCompressOpenIn, SiteCompressOpenOut,
                                    SiteCompressCopy, SiteCompressRename}
           /\ Exists(fs, tasks[i].fn))
          => /\ ~Exists(fs', tempFilename(tasks[i].fn))
             /\ Exists(fs', tasks[i].fn)
             /\ fs'[tasks[i].fn] = fs[tasks[i].fn]]_vars

\* the names <base>-<timestamp>.<ext> of the active file's archives
ArchiveNames == {<<"logfile", "-", ts, ".log">> : ts \in {"T1", "T2", "T3", "T4", "T5"}}

\* caller c leaves the place where a payload has put the counter over the maximum
Crossing(c) ==
    /\ pc[c] = "written"
    /\ pc'[c] # "written"
    /\ cur[c].n > 0
    /\ byteCounter > config.MaxLogFileSizeBytes
    /\ byteCounter - cur[c].n <= config.MaxLogFileSizeBytes

\* caller c alone is inside Write, from this step to the next
HoldsLock(c) == mu = c /\ \A d \in Callers \ {c} : pc[d] = "idle" /\ pc'[d] = "idle"

\* directory d2 is d1 with the active file moved to the name a
MovedTo(d1, d2, a) ==
    /\ DOMAIN d2 = (DOMAIN d1 \ {LogFileName}) \cup {a}
    /\ d2[a] = d1[LogFileName]
    /\ \A x \in DOMAIN d2 \ {a} : d2[x] = d1[x]

Expired ==
    {dir0[i].name : i \in {j \in DOMAIN dir0 :
        config.MaxTimeTimeToKeep # 0 /\ dir0[j].age > config.MaxTimeTimeToKeep}}

\* C8 as claimed: the sweep deletes exactly the entries older than a non-zero
\* retention time, the active file's name included.
C8_SweepDeletesExpired ==
    hist.swept => hist.removed = Expired

\* C8 amended: the sweep deletes exactly the entries older than a non-zero
\* retention time whose os.Remove succeeds; one whose removal fails stays.
C8_SweepDeletesExpiredUnlessRemoveFails ==
    hist.swept =>
        /\ hist.removed = Expired \ hist.removeFailed
        /\ hist.removeFailed \subseteq Expired
        /\ (faulty # SiteSweepRemove) => hist.removeFailed = {}
        /\ config.MaxTimeTimeToKeep = 0 => hist.removed = {}

\* the sweep has deleted the old active file and kept two younger entries
C8_Witness ==
    /\ hist.swept
    /\ phase = "ready"
    /\ LogFileName \in hist.removed
    /\ Cardinality(hist.removed) = 1
    /\ Len(dir0) = 3
    /\ hist.removeFailed = {}

\* the runs of a file are in the order of the calls, one run for each call
InCallOrder(data) == \A i \in 1..(Len(data) - 1) : data[i].b < data[i + 1].b

\* the calls of Write with a byte in the file
CallsIn(f) == {f.data[i].b : i \in DOMAIN f.data} \ {0}

\* C9: in every file the bytes of one Write are one run, the runs are in the
\* order the callers took the lock, and no Write has bytes in two
\* uncompressed files.
C9_PayloadsContiguousInLockOrder ==
    /\ \A x \in DOMAIN fs : InCallOrder(fs[x].data)
    /\ \A x, y \in DOMAIN fs :
          (x # y /\ ~fs[x].gz /\ ~fs[y].gz) => CallsIn(fs[x]) \cap CallsIn(fs[y]) = {}

\* the second Write has added its three bytes behind the first Write's byte
C9_Witness ==
    \E c \in Callers :
        /\ pc[c] = "written"
        /\ cur[c].id = 2
        /\ fs[LogFileName].data = Bytes(1, 1) \o Bytes(2, cur[c].len)
        /\ cur[c].len > 1

\* every compress goroutine that was started has run to its end
CompressionsDrained == wg = 0 /\ \A i \in DOMAIN tasks : tasks[i].pc = "done"

\* the s of the sequence of equal-size Writes
PayloadLen == CHOOSE s \in workload.lens : TRUE

\* the Writes that have returned, when each was of PayloadLen bytes
WritesReturned == hist.sum \div PayloadLen

\* floor(M/s) + 1
RotationPeriod == (config.MaxLogFileSizeBytes \div PayloadLen) + 1

\* TestFileWriter's assert.GreaterOrEqual(t, len(files), 3)
TestEntries == 3

\* every Write so far returned a count above 0 and a nil error
C10_EveryWriteSucceeds ==
    /\ hist.errs = 0
    /\ hist.sum > 0 => (hist.last.n > 0 /\ hist.last.err = Nil)

\* the Writes that rotated are the RotationPeriod-th, 2*RotationPeriod-th, ...
C10_RotationOnEveryPeriodthWrite ==
    /\ Quiet => hist.rotations = WritesReturned \div RotationPeriod
    /\ (Quiet /\ hist.sum > 0) =>
          (hist.last.rotated <=> WritesReturned % RotationPeriod = 0)

\* after the last Write and after the compressions: the rotations and the
\* entries of the directory
C10_DirectoryAfterTest ==
    (Quiet /\ nextId = workload.writes /\ CompressionsDrained) =>
        /\ hist.rotations >= 5
        /\ Exists(fs, LogFileName)
        /\ Cardinality(DOMAIN fs) >= TestEntries

\* C10: on an empty directory with compression enabled, N Writes of s bytes
\* each return a nil error and a count above 0, a rotation happens on exactly
\* every (floor(M/s)+1)-th Write, and for M=1000, s=50, N=120 there are at
\* least 5 rotations and, once the compressions have drained, the directory
\* holds the active file and archives, at least 3 entries.
C10_TestFileWriter ==
    phase = "ready" =>
        /\ C10_EveryWriteSucceeds
        /\ C10_RotationOnEveryPeriodthWrite
        /\ C10_DirectoryAfterTest

-----------------------------------------------------------------------------
(* Close called again *)

\* a step of a Close that is not the first
LaterCloseStep == closeCalls' >= 2 /\ closePc' # closePc

\* C11: a second Close does not panic and changes neither the writer nor the
\* files: the flag stays set, the handle, the open files and the counter are
\* as before, and a result other than nil is the already-closed error.
C11_SecondCloseChangesNothing ==
    [][LaterCloseStep =>
          /\ phase' = "ready"
          /\ closed' = "true"
          /\ fs' = fs
          /\ logFile' = logFile
          /\ openSet' = openSet
          /\ byteCounter' = byteCounter
          /\ (closePc' = "idle" /\ logFile # 0) => hist'.closeErr = ErrClosed]_vars

-----------------------------------------------------------------------------
(* The temporary log level *)

\* the goroutine of call i takes the level from a non-default one to the default
ResetBy(i) ==
    /\ ~timers[i].fired
    /\ timers'[i].fired
    /\ level # defaultLogLevel
    /\ level' = defaultLogLevel

\* the calls that have returned and whose duration has not expired yet
Waiting == {j \in DOMAIN timers : timers[j].pc = "returned" /\ ~timers[j].fired}

\* the reset of the level comes when the call with the shortest duration
\* among the calls still waiting expires, not before
C12_ShortestResets ==
    [][\A i \in DOMAIN timers :
          ResetBy(i) => \A j \in Waiting : timers[i].d <= timers[j].d \/ Due(timers[j])]_vars

\* a call's level has gone back to the default once the duration the call
\* returned has passed, and that duration is at most one hour
C12_BackWithinReturned ==
    \A i \in DOMAIN timers :
        /\ timers[i].d <= maxDurationForTemporaryLogLevelChange
        /\ (/\ timers[i].pc = "returned"
            /\ now > timers[i].at + timers[i].d) => timers[i].back

\* C12: of several calls of SetLevelTemporarily with non-default levels and
\* different durations the one with the shortest duration resets the level
\* to the default when it expires, and after every such call the level is
\* back at the default no later than the returned duration (at most one
\* hour) after the call.
C12_ShortestDurationWins == C12_ShortestResets /\ []C12_BackWithinReturned

-----------------------------------------------------------------------------
(* The handle and the counter *)

\* caller c's Write is handed the result of w.logFile.Write in this step
Appends(c) == pc[c] = "locked" /\ pc'[c] = "written"

\* C13: a Write after a failed rotation reopens the active file: as long as
\* Close has not been called, no Write finds the writer's handle closed or nil.
C13_WriteAfterFailedRotationReopens ==
    [][\A c \in Callers :
          (Appends(c) /\ closeCalls = 0) => cur'[c].err \notin {ErrClosed, ErrInvalid}]_vars

\* the step is one of the caller that holds w.mu
ByLockHolder == mu # "free" /\ pc'[mu] # pc[mu]

\* the step calls a method of w.logFile, assigns it, or assigns w.byteCounter
Touches ==
    \/ logFile' # logFile
    \/ openSet' # openSet
    \/ byteCounter' # byteCounter
    \/ closePc = "waited" /\ closePc' = "idle"
    \/ \E c \in Callers : Appends(c)

\* C14: once the writer is constructed, no step touches the handle or the
\* counter while another caller holds the lock: while the lock is held they
\* are read or modified only in steps of the caller that holds it.
C14_HandleAndCounterUnderLock ==
    [][(phase = "ready" /\ mu # "free" /\ Touches) => ByLockHolder]_vars

\* C15: from construction until Close, with no Write in progress, the writer
\* has exactly one open handle, on the active file; a handle is replaced only
\* by the caller holding the lock; once Close has returned and no Write is in
\* progress the writer has no open handle.
C15_OneHandleNoneAfterClose ==
    [][/\ (phase' = "ready" /\ closeCalls' = 0 /\ Quiet') =>
              /\ openSet' = {logFile'}
              /\ Exists(fs', LogFileName)
       /\ (phase = "ready" /\ logFile' # logFile) => ByLockHolder
       /\ (CloseReturned' /\ Quiet') => openSet' = {}]_vars

-----------------------------------------------------------------------------
(* Construction: the file found and the backlog *)

\* the entries of the listing still there when initialize looks for the
\* active file
FoundActive ==
    {i \in DOMAIN dir0 : dir0[i].name = LogFileName /\ LogFileName \notin hist.removed}

\* C16: construction archives an active file it finds exactly when its size
\* exceeds the maximum, the condition of Write (OverMax), leaving an empty
\* active file and the counter at 0; otherwise the file is kept and the
\* counter starts at its size.
C16_ArchivedAtStartIffOverMax ==
    (phase = "ready" /\ hist.swept) =>
        \A i \in FoundActive :
            IF OverMax(Size(dir0[i].data))
            THEN byteCounter = 0 /\ fs[LogFileName].data = <<>>
            ELSE /\ byteCounter = Size(dir0[i].data)
                 /\ fs[LogFileName].data = dir0[i].data

\* the name ends with the suffix of the active file's name
HasActiveSuffix(name) == Ext(name) = Ext(LogFileName)

\* the files the sweep has started a compressor for
SweepScheduled ==
    {tasks[i].fn : i \in DOMAIN tasks} \ {archiveName(LogFileName, 1)}

\* C17: the sweep starts a compressor exactly for the entries that end with
\* the active file's suffix, are not the active file and were not selected
\* for deletion, and as in rotation only when config.Compress is set; the
\* counter counts each of them.
C17_BacklogScheduledAsInRotation ==
    hist.swept =>
        /\ SweepScheduled =
              IF config.Compress
              THEN {dir0[i].name : i \in {j \in DOMAIN dir0 :
                        /\ HasActiveSuffix(dir0[j].name)
                        /\ dir0[j].name # LogFileName
                        /\ ~TooOld(dir0[j])}}
              ELSE {}
        /\ wg = Cardinality({i \in DOMAIN tasks : tasks[i].pc # "done"})

\* C18: the counter grows by the count each append returns and goes back to
\* zero only after a rotation that has renamed the active file away and
\* opened a fresh one; between operations it is the size of the active file.
C18_CounterIsActiveSize ==
    [][/\ \A c \in Callers : Appends(c) => byteCounter' = byteCounter + cur'[c].n
       /\ (phase = "ready" /\ byteCounter' # byteCounter /\ byteCounter' = 0) =>
              /\ Exists(fs', LogFileName)
              /\ fs'[LogFileName].data = <<>>
              /\ logFile' \in openSet'
       /\ (phase' = "ready" /\ Quiet' /\ logFile' \in openSet') =>
              /\ Exists(fs', LogFileName)
              /\ byteCounter' = Size(fs'[LogFileName].data)]_vars

\* the bytes of the calls of Write held by the files of the directory, the
\* unfinished outputs of compress aside
Kept(d) ==
    UNION {{d[x].data[i] : i \in {j \in DOMAIN d[x].data : d[x].data[j].b > 0}} :
              x \in {y \in DOMAIN d : y[Len(y)] # processingExtenstion}}

\* C20: no step of a rotation or of a compression loses a byte that was
\* written, and an archive is never written again: every run of bytes in the
\* directory is still there after the step, and an uncompressed archive
\* that stays keeps its content.
C20_NoByteLost ==
    [][/\ Kept(fs) \subseteq Kept(fs')
       /\ \A a \in (DOMAIN fs \cap DOMAIN fs') \ {LogFileName} : fs'[a] = fs[a]]_vars

-----------------------------------------------------------------------------
(* The in-flight counter *)

\* the compress goroutines started and not yet finished
InFlight == {i \in DOMAIN tasks : tasks[i].pc # "done"}

\* compress goroutine i ends in this step
Ends(i) == i \in InFlight /\ tasks'[i].pc = "done"

\* the counter is the number of goroutines in flight
C19_CounterIsInFlight == wg = Cardinality(InFlight)

\* the counter goes down by one with the goroutine that ends, on every path,
\* and at no other step
C19_DoneOncePerTask ==
    [][/\ \A i \in DOMAIN tasks : Ends(i) => wg' = wg - 1
       /\ wg' < wg => \E i \in DOMAIN tasks : Ends(i)]_vars

\* a Close that has been called, with no Write in progress, returns
C19_CloseReturns == (closePc = "stored" /\ Quiet) ~> (closePc = "idle")

\* C19: every compress goroutine decrements the in-flight counter exactly
\* once on each exit path, the counter is the number of goroutines started
\* and not finished and never negative, and with the goroutines scheduled
\* fairly and no Write in progress a Close that was called returns.
C19_CounterDrainsAndCloseReturns ==
    /\ [](C19_CounterIsInFlight /\ wg >= 0)
    /\ C19_DoneOncePerTask
    /\ C19_CloseReturns

\* Close has returned after waiting for a goroutine whose rename had failed
C19_Witness ==
    /\ CloseReturned
    /\ wg = 0
    /\ tasks # <<>>
    /\ \E i \in DOMAIN tasks : tasks[i].pc = "done" /\ tasks[i].failed = SiteCompressRename
    /\ hist.closeErr = Nil

====
